---------------------------- MODULE Spec2Model ----------------------------
(***************************************************************************)
(* Model of the "Name That Memory" game page                              *)
(* (src/src/app/pages/name-that-memory/name-that-memory.page.ts):         *)
(* the token normaliser, the similarity predicate, the Levenshtein        *)
(* distance, the option builder and the question sequencer.               *)
(*                                                                         *)
(* A string is a sequence of characters; a character is a one-element     *)
(* name ("a", "A", "Eacute", "-", ...).  "Eacute"/"eacute" stand for the   *)
(* precomposed letters U+00C9/U+00E9, "acute" for the combining mark      *)
(* U+0301.                                                                 *)
(***************************************************************************)
EXTENDS Integers, Sequences, FiniteSets, Bags, TLC

VARIABLES
    \* ---- localStorage
    storage,            \* the raw card list stored for each built-in category
    \* ---- NameThatMemoryPage fields
    selectedFilter,
    gameCards,
    currentCard,
    options,            \* the entries of the options array, as a bag: their
                        \* order, drawn by the last shuffle, is read by nothing
    currentQuestion,
    totalQuestions,
    correctAnswers,
    showResult,
    isCorrect,
    showGameComplete,
    shouldCompleteAfterResult,
    skipCount,
    skippedCardIds,
    askedLabels,
    \* ---- endGame activations suspended at `await saveGameSession`
    pendingEnd,
    \* ---- history: the number of session summaries handed to
    \*      ProgressPage.saveGameSession since the run was set up
    sessions,
    \* ---- inputs and results of the pure functions applied on their own
    argA, argB, probe,
    \* ---- the list of filler names (the field DEFAULT_NAMES) where the option
    \*      builder is applied on its own
    argNames,
    \* ---- the collaborators of ProgressPage.saveGameSession
    gameSessions,       \* the value localStorage holds for 'gameSessions'
    currentUser,        \* whether FirebaseService.getCurrentUser() gives a user
    firestoreSessions,  \* the number of documents added to the user's
                        \* gameSessions collection
    saving              \* the sessionData of the endGame activations awaiting
                        \* their save

gameVars == <<storage, selectedFilter, gameCards, currentCard, options,
              currentQuestion, totalQuestions, correctAnswers, showResult,
              isCorrect, showGameComplete, shouldCompleteAfterResult,
              skipCount, skippedCardIds, askedLabels, pendingEnd, sessions>>

probeVars == <<argA, argB, probe, argNames>>

saveVars == <<gameSessions, currentUser, firestoreSessions, saving>>

vars == <<gameVars, probeVars, saveVars>>

-----------------------------------------------------------------------------
(* Generic sequence helpers *)

Min2(x, y) == IF x <= y THEN x ELSE y

Max2(x, y) == IF x >= y THEN x ELSE y

Abs(x) == IF x < 0 THEN -x ELSE x

RECURSIVE Flatten(_)
Flatten(ss) == IF ss = <<>> THEN <<>> ELSE Head(ss) \o Flatten(Tail(ss))

MapSeq(F(_), s) == [i \in 1..Len(s) |-> F(s[i])]

Range(s) == {s[i] : i \in 1..Len(s)}

\* every sequence over S of length at most n
SeqsUpTo(S, n) == UNION {[1..k -> S] : k \in 0..n}

\* shuffle (Fisher-Yates driven by Math.random): every arrangement of arr
shuffle(arr) ==
    LET n == Len(arr)
        bij == {p \in [1..n -> 1..n] : \A i, j \in 1..n : p[i] = p[j] => i = j}
    IN {[i \in 1..n |-> arr[p[i]]] : p \in bij}

-----------------------------------------------------------------------------
(* Characters *)

LowerLetters == {"a","b","c","d","e","f","g","h","i","j","k","l","m",
                 "n","o","p","q","r","s","t","u","v","w","x","y","z"}

Digits == {"0","1","2","3","4","5","6","7","8","9"}

\* String.prototype.toLowerCase, one character at a time
LowerOf ==
    "A" :> "a" @@ "B" :> "b" @@ "C" :> "c" @@ "D" :> "d" @@ "E" :> "e" @@
    "F" :> "f" @@ "G" :> "g" @@ "H" :> "h" @@ "I" :> "i" @@ "J" :> "j" @@
    "K" :> "k" @@ "L" :> "l" @@ "M" :> "m" @@ "N" :> "n" @@ "O" :> "o" @@
    "P" :> "p" @@ "Q" :> "q" @@ "R" :> "r" @@ "S" :> "s" @@ "T" :> "t" @@
    "U" :> "u" @@ "V" :> "v" @@ "W" :> "w" @@ "X" :> "x" @@ "Y" :> "y" @@
    "Z" :> "z" @@ "Eacute" :> "eacute"

toLowerChar(c) == IF c \in DOMAIN LowerOf THEN LowerOf[c] ELSE c

toLowerCase(s) == MapSeq(toLowerChar, s)

\* String.prototype.normalize('NFD'): canonical decomposition
nfdChar(c) ==
    IF c = "eacute" THEN <<"e", "acute">>
    ELSE IF c = "Eacute" THEN <<"E", "acute">>
    ELSE <<c>>

normalizeNFD(s) == Flatten(MapSeq(nfdChar, s))

\* \p{Diacritic}
IsDiacritic(c) == c = "acute"

\* [a-z0-9]
IsLowerAlnum(c) == c \in LowerLetters \cup Digits

\* String.prototype.trim: whitespace is the character " "
IsSpace(c) == c = " "

RECURSIVE trimStart(_)
trimStart(s) == IF s # <<>> /\ IsSpace(Head(s)) THEN trimStart(Tail(s)) ELSE s

RECURSIVE trimEnd(_)
trimEnd(s) ==
    IF s # <<>> /\ IsSpace(s[Len(s)]) THEN trimEnd(SubSeq(s, 1, Len(s) - 1))
    ELSE s

trim(s) == trimEnd(trimStart(s))

\* String.prototype.includes
includes(s, t) ==
    \E i \in 1..(Len(s) - Len(t) + 1) : SubSeq(s, i, i + Len(t) - 1) = t

-----------------------------------------------------------------------------
(* Token normaliser, similarity, Levenshtein *)

\* normalizeToken without its last replace(/[^a-z0-9]/g, '')
normalizeTokenKeepsOthers(s) ==
    SelectSeq(normalizeNFD(toLowerCase(s)), LAMBDA c : ~IsDiacritic(c))

normalizeToken(s) ==
    LET lower    == toLowerCase(s)
        decomp   == normalizeNFD(lower)
        stripped == SelectSeq(decomp, LAMBDA c : ~IsDiacritic(c))
    IN SelectSeq(stripped, IsLowerAlnum)

\* one row of the dp table: dp[i][0..n] from dp[i-1][0..n]; cell j is at
\* index j + 1
RECURSIVE levRow(_, _, _, _, _)
levRow(a, b, i, prev, cur) ==
    LET j == Len(cur)
    IN IF j > Len(b) THEN cur
       ELSE LET cost == IF a[i] = b[j] THEN 0 ELSE 1
                cell == Min2(Min2(prev[j + 1] + 1, cur[j] + 1), prev[j] + cost)
            IN levRow(a, b, i, prev, Append(cur, cell))

RECURSIVE levRows(_, _, _, _)
levRows(a, b, i, prev) ==
    IF i > Len(a) THEN prev
    ELSE levRows(a, b, i + 1, levRow(a, b, i, prev, <<i>>))

\* levenshtein whose first row dp[0][j] is left at 0, not set to j
levenshteinFirstRowZero(a, b) ==
    LET m == Len(a)
        n == Len(b)
    IN IF m = 0 THEN n
       ELSE IF n = 0 THEN m
       ELSE levRows(a, b, 1, [j \in 1..(n + 1) |-> 0])[n + 1]

levenshtein(a, b) ==
    LET m == Len(a)
        n == Len(b)
    IN IF m = 0 THEN n
       ELSE IF n = 0 THEN m
       ELSE levRows(a, b, 1, [j \in 1..(n + 1) |-> j - 1])[n + 1]

\* isSimilar with one threshold, d <= 2, whatever the length
isSimilarOneThreshold(a, b) ==
    LET na == normalizeToken(a)
        nb == normalizeToken(b)
    IN IF na = <<>> \/ nb = <<>> THEN FALSE
       ELSE IF na = nb THEN TRUE
       ELSE IF /\ (includes(na, nb) \/ includes(nb, na))
               /\ Abs(Len(na) - Len(nb)) <= 2 THEN TRUE
       ELSE levenshtein(na, nb) <= 2

\* isSimilar whose containment rule does not look at the lengths
isSimilarAnyContainment(a, b) ==
    LET na == normalizeToken(a)
        nb == normalizeToken(b)
    IN IF na = <<>> \/ nb = <<>> THEN FALSE
       ELSE IF na = nb THEN TRUE
       ELSE IF includes(na, nb) \/ includes(nb, na) THEN TRUE
       ELSE LET d == levenshtein(na, nb)
            IN IF Max2(Len(na), Len(nb)) <= 5 THEN d <= 1 ELSE d <= 2

\* isSimilar without the test for empty tokens
isSimilarNoEmptyTest(a, b) ==
    LET na == normalizeToken(a)
        nb == normalizeToken(b)
    IN IF na = nb THEN TRUE
       ELSE IF /\ (includes(na, nb) \/ includes(nb, na))
               /\ Abs(Len(na) - Len(nb)) <= 2 THEN TRUE
       ELSE LET d == levenshtein(na, nb)
            IN IF Max2(Len(na), Len(nb)) <= 5 THEN d <= 1 ELSE d <= 2

\* isSimilar that takes equal tokens for "the same", not for "similar"
isSimilarNotSame(a, b) ==
    LET na == normalizeToken(a)
        nb == normalizeToken(b)
    IN IF na = <<>> \/ nb = <<>> THEN FALSE
       ELSE IF na = nb THEN FALSE
       ELSE IF /\ (includes(na, nb) \/ includes(nb, na))
               /\ Abs(Len(na) - Len(nb)) <= 2 THEN TRUE
       ELSE LET d == levenshtein(na, nb)
            IN IF Max2(Len(na), Len(nb)) <= 5 THEN d <= 1 ELSE d <= 2

isSimilar(a, b) ==
    LET na == normalizeToken(a)
        nb == normalizeToken(b)
    IN IF na = <<>> \/ nb = <<>> THEN FALSE
       ELSE IF na = nb THEN TRUE
       ELSE IF /\ (includes(na, nb) \/ includes(nb, na))
               /\ Abs(Len(na) - Len(nb)) <= 2 THEN TRUE
       ELSE LET d == levenshtein(na, nb)
            IN IF Max2(Len(na), Len(nb)) <= 5 THEN d <= 1 ELSE d <= 2

-----------------------------------------------------------------------------
(* Cards and localStorage *)

\* bounds of the model
MaxCards == 3

MaxPool == 4

MaxStored == 3

MaxFillers == 3

MaxExcess == 1

MaxSessions == 1

MaxPending == 1

MaxLen == 6

MaxRawLen == 2

\* Math.min(10, ...) in setupNewRun
MaxQuestions == 10

NoCard == [id |-> "", label |-> <<>>, image |-> "", category |-> "none"]

NoFilter == "none"

Builtins == {"people", "places"}

DEFAULT_NAMES == <<
    <<"A","u","r","e","l","i","a">>, <<"T","h","a","d","d","e","u","s">>,
    <<"I","s","o","l","d","e">>, <<"C","a","s","s","i","a","n">>,
    <<"M","i","r","e","l","l","a">>,
    <<"O","s","r","i","c">>, <<"L","i","n","n","e","a">>,
    <<"P","e","r","c","i","v","a","l">>, <<"E","l","o","w","e","n">>,
    <<"S","o","r","e","n">>,
    <<"C","a","l","l","i","o","p","e">>, <<"E","v","a","n","d","e","r">>,
    <<"B","r","i","e","l","l","e">>, <<"L","u","c","i","a","n">>,
    <<"M","a","r","i","s","o","l">> >>

\* the raw cards a "people" list may hold (a RawCard: id, label, name, image)
Catalog == <<
    [id |-> "c1", label |-> <<>>, name |-> <<"A","n","n">>, image |-> "img1"],
    [id |-> "c2", label |-> <<"A","n","n","a">>, name |-> <<>>, image |-> "img1"],
    [id |-> "c3", label |-> <<"?">>, name |-> <<>>, image |-> "img1"],
    [id |-> "c4", label |-> <<"S","o","r","e","n">>, name |-> <<>>, image |-> "img1"],
    [id |-> "c5", label |-> <<"M","a","r","i","a">>, name |-> <<>>, image |-> "img1"],
    [id |-> "",   label |-> <<" ","M","a","r","i","a">>, name |-> <<>>, image |-> "img2"],
    [id |-> "c7", label |-> <<>>, name |-> <<>>, image |-> "img1"] >>

\* the runs of at most n consecutive cards of s
Windows(s, n) ==
    {SubSeq(s, i, j) : i \in 1..Len(s), j \in 0..Len(s)} \cap SeqsUpTo(Range(s), n)

\* the lists localStorage may hold for "people"
StoredLists == Windows(Catalog, MaxCards)

\* the lists of at most n different elements of S
Arrangements(S, n) ==
    {s \in SeqsUpTo(S, n) : \A i, j \in 1..Len(s) : s[i] = s[j] => i = j}

\* raw cards for the loading of the pool: labels that differ by case only
\* (with the same image and with another), a label with the same token as
\* another but not the same letters, a card without label, one without image
LoadCatalog == {
    [id |-> "l1", label |-> <<"A","n","n","a">>, name |-> <<>>, image |-> "img1"],
    [id |-> "l2", label |-> <<"A","N","N","A">>, name |-> <<>>, image |-> "img2"],
    [id |-> "l3", label |-> <<"a","n","n","a">>, name |-> <<>>, image |-> "img1"],
    [id |-> "l4", label |-> <<"A","n","-","n","a">>, name |-> <<>>, image |-> "img1"],
    [id |-> "l5", label |-> <<>>, name |-> <<>>, image |-> "img1"],
    [id |-> "l6", label |-> <<>>, name |-> <<"B","o">>, image |-> ""] }

LoadLists == Arrangements(LoadCatalog, MaxStored)

\* raw cards of a "people" list whose labels meet the filler names: equal to
\* one ("Soren"), one edit from one ("Osrik"), similar to each other
\* ("Maria", "Mario"), with an empty token ("?")
OptionCatalog == {
    [id |-> "o1", label |-> <<"S","o","r","e","n">>, name |-> <<>>, image |-> "img1"],
    [id |-> "o2", label |-> <<"O","s","r","i","k">>, name |-> <<>>, image |-> "img1"],
    [id |-> "o3", label |-> <<"M","a","r","i","a">>, name |-> <<>>, image |-> "img1"],
    [id |-> "o4", label |-> <<"M","a","r","i","o">>, name |-> <<>>, image |-> "img1"],
    [id |-> "o5", label |-> <<"?">>, name |-> <<>>, image |-> "img1"] }

\* answers typed or tapped that are not among the options shown
TypedChoices == {<<"A","n","a">>}

normalizeCard(r, category) ==
    LET label == trim(IF r.label # <<>> THEN r.label ELSE r.name)
    IN [id |-> r.id, label |-> label, image |-> r.image, category |-> category]

\* the loop leaving at the first incomplete card: `break` for `continue`
RECURSIVE readLoopStopsAtIncomplete(_, _, _, _)
readLoopStopsAtIncomplete(arr, category, seen, result) ==
    IF arr = <<>> THEN result
    ELSE LET card == normalizeCard(Head(arr), category)
             k    == <<toLowerCase(card.label), card.image>>
         IN IF card.label = <<>> \/ card.image = "" THEN result
            ELSE IF k \in seen THEN
                readLoopStopsAtIncomplete(Tail(arr), category, seen, result)
            ELSE readLoopStopsAtIncomplete(Tail(arr), category, seen \cup {k},
                                           Append(result, card))

\* the loop over one stored list: skip incomplete cards and repeated
\* (lower-cased label, image) pairs
RECURSIVE readLoop(_, _, _, _)
readLoop(arr, category, seen, result) ==
    IF arr = <<>> THEN result
    ELSE LET card == normalizeCard(Head(arr), category)
             k    == <<toLowerCase(card.label), card.image>>
         IN IF card.label = <<>> \/ card.image = "" THEN
                readLoop(Tail(arr), category, seen, result)
            ELSE IF k \in seen THEN
                readLoop(Tail(arr), category, seen, result)
            ELSE readLoop(Tail(arr), category, seen \cup {k}, Append(result, card))

readCardsWithFallbacks(store, category) ==
    readLoop(store[category], category, {}, <<>>)

loadCardsByFilter(store, filter) ==
    IF filter \in Builtins
    THEN MapSeq(LAMBDA c : [c EXCEPT !.category = filter],
                readCardsWithFallbacks(store, filter))
    ELSE <<>>

\* the de-duplicating filter of setupNewRun
RECURSIVE dedupFilter(_, _, _)
dedupFilter(cards, seen, result) ==
    IF cards = <<>> THEN result
    ELSE LET c   == Head(cards)
             key == <<c.category, toLowerCase(c.label), c.image>>
         IN IF key \in seen THEN dedupFilter(Tail(cards), seen, result)
            ELSE dedupFilter(Tail(cards), seen \cup {key},
                             IF c.label # <<>> /\ c.image # ""
                             THEN Append(result, c) ELSE result)

\* the card lists a run may play with
PlayableCards ==
    {dedupFilter(loadCardsByFilter([c \in Builtins |-> l], "people"), {}, <<>>)
     : l \in StoredLists \cup LoadLists}

\* isSimilar on the labels and names of the model (computed once)
KnownNames ==
    UNION {{cards[i].label : i \in 1..Len(cards)} : cards \in PlayableCards}
    \cup Range(DEFAULT_NAMES) \cup TypedChoices
    \cup {trim(r.label) : r \in OptionCatalog}

SimilarTable == [a \in KnownNames, b \in KnownNames |-> isSimilar(a, b)] @@ <<>>

\* this.isSimilar(a, b), read from the table where it holds the pair
isSimilarKnown(a, b) ==
    IF a \in KnownNames /\ b \in KnownNames THEN SimilarTable[a, b]
    ELSE isSimilar(a, b)

isSimilarToAny(name, normalizedUserSet) ==
    LET n == normalizeToken(name)
    IN IF n \in normalizedUserSet THEN TRUE
       ELSE \E u \in normalizedUserSet :
              LET d == levenshtein(n, u)
              IN \/ IF Max2(Len(n), Len(u)) <= 5 THEN d <= 1 ELSE d <= 2
                 \/ /\ (includes(n, u) \/ includes(u, n))
                    /\ Abs(Len(n) - Len(u)) <= 2

-----------------------------------------------------------------------------
(* The page: its fields as a record, its methods as functions from the     *)
(* fields to the set of field values they may leave                        *)

Page ==
    [selectedFilter |-> selectedFilter, gameCards |-> gameCards,
     currentCard |-> currentCard, options |-> options,
     currentQuestion |-> currentQuestion, totalQuestions |-> totalQuestions,
     correctAnswers |-> correctAnswers, showResult |-> showResult,
     isCorrect |-> isCorrect, showGameComplete |-> showGameComplete,
     shouldCompleteAfterResult |-> shouldCompleteAfterResult,
     skipCount |-> skipCount, skippedCardIds |-> skippedCardIds,
     askedLabels |-> askedLabels, pendingEnd |-> pendingEnd,
     sessions |-> sessions]

\* endGame up to its `await`: the summary is built and handed to
\* ProgressPage.saveGameSession, and the activation is suspended
endGame(this) ==
    LET sessionData == [totalQuestions |-> this.totalQuestions,
                        correctAnswers |-> this.correctAnswers,
                        skipped |-> this.skipCount]
    IN [this EXCEPT !.sessions = @ + 1,
                    !.pendingEnd = @ + 1]

\* endGame after its `await` (the save settled, resolved or rejected)
endGameResume(this) ==
    [this EXCEPT !.pendingEnd = @ - 1,
                 !.showResult = FALSE,
                 !.showGameComplete = TRUE]

\* filteredLabels without the filter on near-duplicates
filteredLabelsKeepsSimilar(cards, correct) ==
    MapSeq(LAMBDA c : c.label, SelectSeq(cards, LAMBDA c : c.label # correct))

\* filteredLabels that does not leave out the cards carrying the label asked
filteredLabelsKeepsCorrect(cards, correct) ==
    SelectSeq(MapSeq(LAMBDA c : c.label, cards),
              LAMBDA l : ~isSimilar(l, correct))

\* labels of the other cards that are not near-duplicates of `correct`
filteredLabels(cards, correct) ==
    LET allOtherLabels ==
            MapSeq(LAMBDA c : c.label,
                   SelectSeq(cards, LAMBDA c : c.label # correct))
    IN SelectSeq(allOtherLabels, LAMBDA l : ~isSimilar(l, correct))

\* defaultFillers without the filter against the labels of the pool
defaultFillersCorrectOnly(cards, correct, names) ==
    SelectSeq(names, LAMBDA n : ~isSimilar(n, correct))

defaultFillers(cards, correct, names) ==
    LET userAllLabels == {normalizeToken(cards[i].label) : i \in 1..Len(cards)}
        notUser == SelectSeq(names, LAMBDA n : ~isSimilarToAny(n, userAllLabels))
    IN SelectSeq(notUser, LAMBDA n : ~isSimilar(n, correct))

\* the filling loop stopping one short: while (poolNames.length < 2 && ...)
RECURSIVE fillLoopOneShort(_, _)
fillLoopOneShort(poolNames, fillers) ==
    IF Len(poolNames) < 2 /\ Len(fillers) > 0
    THEN fillLoopOneShort(Append(poolNames, Head(fillers)), Tail(fillers))
    ELSE poolNames

\* the filling loop as an `if`: at most one filler is pushed
fillLoopOnce(poolNames, fillers) ==
    IF Len(poolNames) < 3 /\ Len(fillers) > 0
    THEN Append(poolNames, Head(fillers))
    ELSE poolNames

\* the filling loop taking the fillers from the end of the list: pop() for
\* shift()
RECURSIVE fillLoopFromEnd(_, _)
fillLoopFromEnd(poolNames, fillers) ==
    IF Len(poolNames) < 3 /\ Len(fillers) > 0
    THEN fillLoopFromEnd(Append(poolNames, fillers[Len(fillers)]),
                         SubSeq(fillers, 1, Len(fillers) - 1))
    ELSE poolNames

\* while (poolNames.length < 3 && defaultFillers.length > 0) push(shift())
RECURSIVE fillLoop(_, _)
fillLoop(poolNames, fillers) ==
    IF Len(poolNames) < 3 /\ Len(fillers) > 0
    THEN fillLoop(Append(poolNames, Head(fillers)), Tail(fillers))
    ELSE poolNames

slice3(s) == SubSeq(s, 1, Min2(3, Len(s)))

\* the entries of s, as a bag
RECURSIVE SeqToBag(_)
SeqToBag(s) ==
    IF s = <<>> THEN EmptyBag ELSE SetToBag({Head(s)}) (+) SeqToBag(Tail(s))

\* the options startNewQuestion may build for a card: [correct, ...the first
\* three of the shuffled pool names topped up with fillers], shuffled
buildOptions(cards, correct, names) ==
    LET filtered == filteredLabels(cards, correct)
        fillers  == defaultFillers(cards, correct, names)
    IN { SeqToBag(<<correct>> \o slice3(fillLoop(poolNames, fillers)))
         : poolNames \in shuffle(filtered) }

\* for each of these card lists and each of its labels, the options
\* buildOptions gives (computed once, read by every step)
OptionsTable ==
    [cards \in PlayableCards |->
        [label \in {cards[i].label : i \in 1..Len(cards)} |->
            buildOptions(cards, label, DEFAULT_NAMES)]] @@ <<>>

optionsFor(cards, label) ==
    IF cards \in DOMAIN OptionsTable
    THEN OptionsTable[cards][label]
    ELSE buildOptions(cards, label, DEFAULT_NAMES)

\* startNewQuestion drawing from all the cards, asked or not
startNewQuestionAnyCard(this) ==
    IF this.currentQuestion >= this.totalQuestions \/ Len(this.gameCards) = 0
    THEN {endGame(this)}
    ELSE UNION {
           { [this EXCEPT !.currentQuestion = @ + 1,
                          !.askedLabels = @ \cup {card.label},
                          !.currentCard = card,
                          !.options = opts,
                          !.showResult = FALSE,
                          !.isCorrect = FALSE,
                          !.shouldCompleteAfterResult = FALSE]
             : opts \in optionsFor(this.gameCards, card.label) }
           : card \in Range(this.gameCards) }

\* startNewQuestion counting the question twice: currentQuestion += 2
startNewQuestionCountsTwice(this) ==
    IF this.currentQuestion >= this.totalQuestions \/ Len(this.gameCards) = 0
    THEN {endGame(this)}
    ELSE LET pool == SelectSeq(this.gameCards,
                               LAMBDA c : c.label \notin this.askedLabels)
             base == IF Len(pool) > 0 THEN pool ELSE this.gameCards
         IN UNION {
              { [this EXCEPT !.currentQuestion = @ + 2,
                             !.askedLabels = @ \cup {card.label},
                             !.currentCard = card,
                             !.options = opts,
                             !.showResult = FALSE,
                             !.isCorrect = FALSE,
                             !.shouldCompleteAfterResult = FALSE]
                : opts \in optionsFor(this.gameCards, card.label) }
              : card \in Range(base) }

\* startNewQuestion that does not count the question: no currentQuestion += 1
startNewQuestionNoCount(this) ==
    IF this.currentQuestion >= this.totalQuestions \/ Len(this.gameCards) = 0
    THEN {endGame(this)}
    ELSE LET pool == SelectSeq(this.gameCards,
                               LAMBDA c : c.label \notin this.askedLabels)
             base == IF Len(pool) > 0 THEN pool ELSE this.gameCards
         IN UNION {
              { [this EXCEPT !.askedLabels = @ \cup {card.label},
                             !.currentCard = card,
                             !.options = opts,
                             !.showResult = FALSE,
                             !.isCorrect = FALSE,
                             !.shouldCompleteAfterResult = FALSE]
                : opts \in optionsFor(this.gameCards, card.label) }
              : card \in Range(base) }

startNewQuestion(this) ==
    IF this.currentQuestion >= this.totalQuestions \/ Len(this.gameCards) = 0
    THEN {endGame(this)}
    ELSE LET pool == SelectSeq(this.gameCards,
                               LAMBDA c : c.label \notin this.askedLabels)
             base == IF Len(pool) > 0 THEN pool ELSE this.gameCards
         IN UNION {
              { [this EXCEPT !.currentQuestion = @ + 1,
                             !.askedLabels = @ \cup {card.label},
                             !.currentCard = card,
                             !.options = opts,
                             !.showResult = FALSE,
                             !.isCorrect = FALSE,
                             !.shouldCompleteAfterResult = FALSE]
                : opts \in optionsFor(this.gameCards, card.label) }
              : card \in Range(base) }

\* uniqueCount counting the cards, not their labels
uniqueCountCards(cards) == Len(cards)

uniqueCount(cards) ==
    Cardinality({toLowerCase(cards[i].label) : i \in 1..Len(cards)})

\* setupNewRun that leaves askedLabels as the last run left it
setupNewRunKeepsAsked(this, store) ==
    IF this.selectedFilter = NoFilter THEN {this}
    ELSE UNION {
         LET total    == Min2(MaxQuestions, Max2(uniqueCount(cards), 0))
             reset    == [this EXCEPT !.gameCards = cards,
                                      !.totalQuestions = total,
                                      !.currentCard = NoCard,
                                      !.options = EmptyBag,
                                      !.currentQuestion = 0,
                                      !.correctAnswers = 0,
                                      !.skipCount = 0,
                                      !.skippedCardIds = <<>>,
                                      !.showResult = FALSE,
                                      !.isCorrect = FALSE,
                                      !.showGameComplete = FALSE,
                                      !.shouldCompleteAfterResult = FALSE,
                                      !.sessions = 0]
         IN IF Len(cards) > 0 /\ total > 0 THEN startNewQuestion(reset)
            ELSE {reset}
         : cards \in {dedupFilter(loadCardsByFilter(store, this.selectedFilter),
                                  {}, <<>>)} }

setupNewRun(this, store) ==
    IF this.selectedFilter = NoFilter THEN {this}
    ELSE UNION {
         LET total    == Min2(MaxQuestions, Max2(uniqueCount(cards), 0))
             reset    == [this EXCEPT !.gameCards = cards,
                                      !.totalQuestions = total,
                                      !.currentCard = NoCard,
                                      !.options = EmptyBag,
                                      !.currentQuestion = 0,
                                      !.correctAnswers = 0,
                                      !.skipCount = 0,
                                      !.skippedCardIds = <<>>,
                                      !.showResult = FALSE,
                                      !.isCorrect = FALSE,
                                      !.showGameComplete = FALSE,
                                      !.shouldCompleteAfterResult = FALSE,
                                      !.askedLabels = {},
                                      !.sessions = 0]
         IN IF Len(cards) > 0 /\ total > 0 THEN startNewQuestion(reset)
            ELSE {reset}
         : cards \in {dedupFilter(loadCardsByFilter(store, this.selectedFilter),
                                  {}, <<>>)} }

\* selectAnswer grading by equality alone
selectAnswerExactOnly(this, choice) ==
    IF this.currentCard = NoCard THEN this
    ELSE LET correct == this.currentCard.label
             ok      == choice = correct
         IN [this EXCEPT !.isCorrect = ok,
                         !.correctAnswers = IF ok THEN @ + 1 ELSE @,
                         !.shouldCompleteAfterResult =
                             (this.currentQuestion >= this.totalQuestions),
                         !.showResult = TRUE]

\* selectAnswer that does not show the result of the last question
selectAnswerHidesLast(this, choice) ==
    IF this.currentCard = NoCard THEN this
    ELSE LET correct == this.currentCard.label
             ok      == isSimilarKnown(choice, correct) \/ choice = correct
             last    == this.currentQuestion >= this.totalQuestions
         IN [this EXCEPT !.isCorrect = ok,
                         !.correctAnswers = IF ok THEN @ + 1 ELSE @,
                         !.shouldCompleteAfterResult = last,
                         !.showResult = ~last]

selectAnswer(this, choice) ==
    IF this.currentCard = NoCard THEN this
    ELSE LET correct == this.currentCard.label
             ok      == isSimilarKnown(choice, correct) \/ choice = correct
         IN [this EXCEPT !.isCorrect = ok,
                         !.correctAnswers = IF ok THEN @ + 1 ELSE @,
                         !.shouldCompleteAfterResult =
                             (this.currentQuestion >= this.totalQuestions),
                         !.showResult = TRUE]

\* skipCurrent that counts the skip and does not record the card
skipCurrentForgetsId(this) ==
    IF this.currentCard = NoCard THEN {this}
    ELSE LET skipped == [this EXCEPT !.skipCount = @ + 1]
         IN IF skipped.currentQuestion >= skipped.totalQuestions
            THEN {endGame(skipped)}
            ELSE startNewQuestion(skipped)

skipCurrent(this) ==
    IF this.currentCard = NoCard THEN {this}
    ELSE LET skipped ==
                 [this EXCEPT !.skipCount = @ + 1,
                              !.skippedCardIds =
                                  IF this.currentCard.id # ""
                                  THEN Append(@, this.currentCard.id) ELSE @]
         IN IF skipped.currentQuestion >= skipped.totalQuestions
            THEN {endGame(skipped)}
            ELSE startNewQuestion(skipped)

continueGame(this) ==
    LET hidden == [this EXCEPT !.showResult = FALSE]
    IN IF hidden.shouldCompleteAfterResult
          \/ hidden.currentQuestion >= hidden.totalQuestions
       THEN {endGame([hidden EXCEPT !.shouldCompleteAfterResult = FALSE])}
       ELSE startNewQuestion(hidden)

finishGame(this) ==
    [this EXCEPT !.showGameComplete = FALSE,
                 !.showResult = FALSE,
                 !.shouldCompleteAfterResult = FALSE]

\* the summary endGame builds (its category is the built-in chosen; its times
\* are left out)
sessionData(this) ==
    [category |-> this.selectedFilter,
     totalQuestions |-> this.totalQuestions,
     correctAnswers |-> this.correctAnswers,
     skipped |-> this.skipCount]

\* FirebaseService.saveGameSession: throws without a user, else adds the
\* document, and addDoc resolves or rejects
firebaseSaveGameSession(docs, session, user, addDocOk) ==
    IF ~user \/ ~addDocOk THEN [thrown |-> TRUE, docs |-> docs]
    ELSE [thrown |-> FALSE, docs |-> docs + 1]

\* JSON.parse(localStorage.getItem('gameSessions') || '[]'), push, setItem:
\* throws when the value is no array or setItem fails, and then stores nothing
appendBackup(store, session, setItemOk) ==
    IF ~store.array \/ ~setItemOk THEN [thrown |-> TRUE, store |-> store]
    ELSE [thrown |-> FALSE, store |-> [store EXCEPT !.items = Append(@, session)]]

\* saveGameSession whose fallback runs after the try block whatever happened
\* in it: `finally` for `catch`
saveGameSessionAlwaysFallsBack(store, docs, session, user, addDocOk, ok1, ok2) ==
    LET remote   == firebaseSaveGameSession(docs, session, user, addDocOk)
        first    == IF remote.thrown THEN [thrown |-> TRUE, store |-> store]
                    ELSE appendBackup(store, session, ok1)
        fallback == appendBackup(first.store, session, ok2)
    IN [rejected |-> fallback.thrown, store |-> fallback.store,
        docs |-> remote.docs, remote |-> ~remote.thrown]

\* ProgressPage.saveGameSession: the remote save, then the backup; when either
\* throws, the backup again in the catch block, whose failure rejects the
\* call.  endGame passes a timestamp, so sessionWithTimestamp is sessionData.
saveGameSession(store, docs, session, user, addDocOk, ok1, ok2) ==
    LET remote   == firebaseSaveGameSession(docs, session, user, addDocOk)
        first    == appendBackup(store, session, ok1)
        fallback == appendBackup(store, session, ok2)
    IN IF ~remote.thrown /\ ~first.thrown
       THEN [rejected |-> FALSE, store |-> first.store,
             docs |-> remote.docs, remote |-> TRUE]
       ELSE [rejected |-> fallback.thrown, store |-> fallback.store,
             docs |-> remote.docs, remote |-> ~remote.thrown]

\* endGame after its `await` with no try around it: a rejected save leaves
\* the activation
endGameSettledUncaught(this, rejected) ==
    IF rejected THEN [this EXCEPT !.pendingEnd = @ - 1]
    ELSE endGameResume(this)

\* endGame after its `await`: a rejected save is caught and logged, and the
\* rest of endGame runs either way
endGameSettled(this, rejected) == endGameResume(this)

-----------------------------------------------------------------------------
(* The state machine of the page *)

\* the fields after a handler
Put(this) ==
    /\ showResult' = this.showResult
    /\ showGameComplete' = this.showGameComplete
    /\ shouldCompleteAfterResult' = this.shouldCompleteAfterResult
    /\ selectedFilter' = this.selectedFilter
    /\ currentQuestion' = this.currentQuestion
    /\ totalQuestions' = this.totalQuestions
    /\ gameCards' = this.gameCards
    /\ currentCard' = this.currentCard
    /\ options' = this.options
    /\ skipCount' = this.skipCount
    /\ skippedCardIds' = this.skippedCardIds
    /\ askedLabels' = this.askedLabels
    /\ pendingEnd' = this.pendingEnd
    /\ sessions' = this.sessions
    /\ isCorrect' = this.isCorrect
    /\ correctAnswers' = this.correctAnswers

\* the model's bound on a handler's outcome: the tallies run ahead of the
\* questions asked by at most MaxExcess, a run hands out at most MaxSessions
\* summaries, at most MaxPending saves are awaited at once
Bounded(this) ==
    /\ this.correctAnswers + this.skipCount <= this.currentQuestion + MaxExcess
    /\ this.sessions <= MaxSessions
    /\ this.pendingEnd <= MaxPending

InitPage ==
    /\ selectedFilter = NoFilter
    /\ gameCards = <<>>
    /\ currentCard = NoCard
    /\ options = EmptyBag
    /\ currentQuestion = 0
    /\ totalQuestions = 10
    /\ correctAnswers = 0
    /\ showResult = FALSE
    /\ isCorrect = FALSE
    /\ showGameComplete = FALSE
    /\ shouldCompleteAfterResult = FALSE
    /\ skipCount = 0
    /\ skippedCardIds = <<>>
    /\ askedLabels = {}
    /\ pendingEnd = 0
    /\ sessions = 0

NoProbe == [op |-> "none"]

\* the value of 'gameSessions': whether JSON.parse gives an array of it, and
\* the records of the array
NoSessions == [array |-> TRUE, items |-> <<>>]

\* no save has run: an empty backup list, a signed-in user, no document
SaveIdle ==
    /\ gameSessions = NoSessions
    /\ currentUser = TRUE
    /\ firestoreSessions = 0
    /\ saving = <<>>

Init ==
    /\ storage \in {[c \in Builtins |-> IF c = "people" THEN l ELSE <<>>]
                    : l \in StoredLists}
    /\ InitPage
    /\ argA = <<>> /\ argB = <<>> /\ probe = NoProbe
    /\ argNames = DEFAULT_NAMES
    /\ SaveIdle

ChooseBuiltin(builtin) ==
    /\ \E next \in setupNewRun([Page EXCEPT !.selectedFilter = builtin], storage) :
          Bounded(next) /\ Put(next)
    /\ UNCHANGED <<storage, probeVars, saveVars>>

PlayAgain ==
    /\ \E next \in setupNewRun(Page, storage) : Bounded(next) /\ Put(next)
    /\ UNCHANGED <<storage, probeVars, saveVars>>

SelectAnswer(choice) ==
    /\ LET next == selectAnswer(Page, choice)
       IN Put(next) /\ Bounded(next)
    /\ UNCHANGED <<storage, probeVars, saveVars>>

SkipCurrent ==
    /\ \E next \in skipCurrent(Page) : Bounded(next) /\ Put(next)
    /\ UNCHANGED <<storage, probeVars, saveVars>>

ContinueGame ==
    /\ \E next \in continueGame(Page) : Bounded(next) /\ Put(next)
    /\ UNCHANGED <<storage, probeVars, saveVars>>

FinishGame ==
    /\ Put(finishGame(Page))
    /\ UNCHANGED <<storage, probeVars, saveVars>>

EndGameResume ==
    /\ pendingEnd > 0
    /\ Put(endGameResume(Page))
    /\ UNCHANGED <<storage, probeVars, saveVars>>

Next ==
    \/ \E builtin \in Builtins : ChooseBuiltin(builtin)
    \/ PlayAgain
    \/ \E choice \in BagToSet(options) \cup TypedChoices : SelectAnswer(choice)
    \/ SkipCurrent
    \/ ContinueGame
    \/ FinishGame
    \/ EndGameResume

Spec == Init /\ [][Next]_vars

-----------------------------------------------------------------------------
(* The loading of the pool on its own: Init draws the stored list, the     *)
(* actions are the handlers that start a run                               *)

InitLoad ==
    /\ storage \in {[c \in Builtins |-> IF c = "people" THEN l ELSE <<>>]
                    : l \in LoadLists}
    /\ InitPage
    /\ argA = <<>> /\ argB = <<>> /\ probe = NoProbe
    /\ argNames = DEFAULT_NAMES
    /\ SaveIdle

NextLoad ==
    \/ \E builtin \in Builtins : ChooseBuiltin(builtin)
    \/ PlayAgain

SpecLoad == InitLoad /\ [][NextLoad]_vars

-----------------------------------------------------------------------------
(* One run with a player who keeps acting: a category is chosen once, each  *)
(* question shown is answered and continued from, or skipped, and the save *)
(* awaited in endGame settles                                              *)

StartRun(builtin) ==
    /\ selectedFilter = NoFilter
    /\ ChooseBuiltin(builtin)

Answer(choice) ==
    /\ currentCard # NoCard /\ ~showResult
    /\ SelectAnswer(choice)

Continue ==
    /\ showResult
    /\ ContinueGame

Skip ==
    /\ currentCard # NoCard
    /\ SkipCurrent

\* the player's next step on the question shown
Player ==
    \/ \E choice \in BagToSet(options) \cup TypedChoices : Answer(choice)
    \/ Continue
    \/ Skip

NextRun ==
    \/ \E builtin \in Builtins : StartRun(builtin)
    \/ Player
    \/ EndGameResume

\* the player does not stop acting while a step is open to them, and a save
\* awaited settles
SpecRun ==
    Init /\ [][NextRun]_vars /\ WF_vars(Player) /\ WF_vars(EndGameResume)

-----------------------------------------------------------------------------
(* The pure functions applied on their own: Init draws the arguments, each *)
(* action applies one function and records what it returned                *)

\* arguments that are already tokens, long enough to pass the 5-character
\* threshold of isSimilar
TokenStrings == SeqsUpTo({"a", "b"}, MaxLen)

\* arguments as typed: upper case, letters with diacritics, punctuation
RawStrings == SeqsUpTo({"a", "B", "Eacute", "-", "7"}, MaxRawLen)

ProbePairs == (TokenStrings \X TokenStrings) \cup (RawStrings \X RawStrings)

InitProbe ==
    /\ storage = [c \in Builtins |-> <<>>]
    /\ InitPage
    /\ \E pair \in ProbePairs : argA = pair[1] /\ argB = pair[2]
    /\ probe = NoProbe
    /\ argNames = DEFAULT_NAMES
    /\ SaveIdle

ApplyIsSimilar ==
    /\ probe = NoProbe
    /\ probe' = [op |-> "isSimilar", result |-> isSimilar(argA, argB)]
    /\ UNCHANGED <<gameVars, argA, argB, argNames, saveVars>>

ApplyNormalizeToken ==
    /\ probe = NoProbe
    /\ LET token == normalizeToken(argA)
       IN probe' = [op |-> "normalizeToken", result |-> token,
                    again |-> normalizeToken(token)]
    /\ UNCHANGED <<gameVars, argA, argB, argNames, saveVars>>

ApplyLevenshtein ==
    /\ probe = NoProbe
    /\ probe' = [op |-> "levenshtein", result |-> levenshtein(argA, argB),
                 swapped |-> levenshtein(argB, argA),
                 self |-> levenshtein(argA, argA)]
    /\ UNCHANGED <<gameVars, argA, argB, argNames, saveVars>>

NextProbe ==
    \/ ApplyIsSimilar
    \/ ApplyNormalizeToken
    \/ ApplyLevenshtein

SpecProbe == InitProbe /\ [][NextProbe]_vars

-----------------------------------------------------------------------------
(* The option builder of startNewQuestion applied on its own: Init draws   *)
(* the stored cards and the list of filler names.  The page's own list has *)
(* 15 names, of which a pool of a few cards rejects at most a few, so the  *)
(* builder runs short of fillers only when the list is a shorter one: the  *)
(* lists drawn here are runs of at most MaxFillers names of DEFAULT_NAMES. *)

OptionLists == Arrangements(OptionCatalog, MaxPool)

FillerLists == Windows(DEFAULT_NAMES, MaxFillers)

\* the pool setupNewRun builds from the stored "people" list
OptionPool == dedupFilter(loadCardsByFilter(storage, "people"), {}, <<>>)

InitOptions ==
    /\ storage \in {[c \in Builtins |-> IF c = "people" THEN l ELSE <<>>]
                    : l \in OptionLists}
    /\ InitPage
    /\ argA = <<>> /\ argB = <<>> /\ probe = NoProbe
    /\ argNames \in FillerLists
    /\ SaveIdle

\* lines 366-386 of startNewQuestion for one card of the pool and one outcome
\* of the first shuffle; the locals are recorded with the options
ApplyStartNewQuestion ==
    /\ probe = NoProbe
    /\ \E cards \in {OptionPool} : \E i \in 1..Len(cards) :
          \E fillers \in {defaultFillers(cards, cards[i].label, argNames)} :
          \E poolNames \in shuffle(filteredLabels(cards, cards[i].label)) :
          \E filled \in {fillLoop(poolNames, fillers)} :
             probe' = [op |-> "startNewQuestion",
                       correct |-> cards[i].label,
                       labels |-> MapSeq(LAMBDA c : c.label, cards),
                       poolNames |-> SeqToBag(poolNames),
                       fillers |-> fillers,
                       added |-> SubSeq(filled, Len(poolNames) + 1, Len(filled)),
                       options |-> SeqToBag(<<cards[i].label>> \o slice3(filled))]
    /\ UNCHANGED <<gameVars, argA, argB, argNames, saveVars>>

NextOptions == ApplyStartNewQuestion

SpecOptions == InitOptions /\ [][NextOptions]_vars

-----------------------------------------------------------------------------
(* The end of a run with the save of its summary: Init draws the backup    *)
(* list and whether a user is signed in; the actions are the start of a    *)
(* run, the two handlers that call endGame, which keep its sessionData,    *)
(* and the settling of a save                                              *)

\* bound of the model: the backup list and the remote collection grow by at
\* most MaxBackups records
MaxBackups == 1

\* the list localStorage holds for "people": one card
SaveLists == {SubSeq(Catalog, 4, 4)}

\* a record left in the backup list by an earlier game
OldSession ==
    [category |-> "places", totalQuestions |-> 10, correctAnswers |-> 7,
     skipped |-> 1]

\* the records of the backup list that this game appended
Backups(store) == SelectSeq(store.items, LAMBDA s : s # OldSession)

InitSave ==
    /\ storage \in {[c \in Builtins |-> IF c = "people" THEN l ELSE <<>>]
                    : l \in SaveLists}
    /\ InitPage
    /\ argA = <<>> /\ argB = <<>> /\ probe = NoProbe
    /\ argNames = DEFAULT_NAMES
    /\ gameSessions \in {NoSessions, [array |-> TRUE, items |-> <<OldSession>>],
                         [array |-> FALSE, items |-> <<>>]}
    /\ currentUser \in BOOLEAN
    /\ firestoreSessions = 0
    /\ saving = <<>>

\* the save of `session` settles and the endGame awaiting it runs to its end
\* on the page `this`
Settle(this, session, addDocOk, ok1, ok2) ==
    \E r \in {saveGameSession(gameSessions, firestoreSessions, session,
                              currentUser, addDocOk, ok1, ok2)} :
        /\ Len(Backups(r.store)) <= MaxBackups /\ r.docs <= MaxBackups
        /\ gameSessions' = r.store
        /\ firestoreSessions' = r.docs
        /\ Put(endGameSettled(this, r.rejected))
        /\ probe' = [op |-> "saveGameSession", remote |-> r.remote,
                     rejected |-> r.rejected]

\* the state a handler leaves that left the page as `next`.  Where it called
\* endGame: with a user signed in the activation awaits addDoc; with none,
\* FirebaseService.saveGameSession throws at once and the save and the rest
\* of endGame run before the next event.
Handled(next) ==
    IF next.pendingEnd = pendingEnd
    THEN Put(next) /\ UNCHANGED <<saveVars, probe>>
    ELSE IF currentUser
    THEN /\ Put(next)
         /\ saving' = Append(saving, sessionData(next))
         /\ UNCHANGED <<gameSessions, currentUser, firestoreSessions, probe>>
    ELSE /\ \E ok2 \in BOOLEAN : Settle(next, sessionData(next), FALSE, TRUE, ok2)
         /\ UNCHANGED <<saving, currentUser>>

SkipCurrentSave ==
    /\ \E next \in skipCurrent(Page) : Bounded(next) /\ Handled(next)
    /\ UNCHANGED <<storage, argA, argB, argNames>>

ContinueGameSave ==
    /\ \E next \in continueGame(Page) : Bounded(next) /\ Handled(next)
    /\ UNCHANGED <<storage, argA, argB, argNames>>

\* addDoc resolves or rejects for one of the saves awaited
SaveSettles ==
    /\ \E i \in 1..Len(saving) : \E addDocOk, ok1, ok2 \in BOOLEAN :
          /\ Settle(Page, saving[i], addDocOk, ok1, ok2)
          /\ saving' = SubSeq(saving, 1, i - 1) \o SubSeq(saving, i + 1, Len(saving))
    /\ UNCHANGED <<storage, argA, argB, argNames, currentUser>>

NextSave ==
    \/ \E builtin \in Builtins : ChooseBuiltin(builtin)
    \/ SkipCurrentSave
    \/ ContinueGameSave
    \/ SaveSettles

SpecSave == InitSave /\ [][NextSave]_vars

-----------------------------------------------------------------------------
(* Edit distance, from its definition: the least number of one-character   *)
(* insertions, deletions and substitutions                                  *)

RemoveAt(s, i) == SubSeq(s, 1, i - 1) \o SubSeq(s, i + 1, Len(s))

InsertAt(s, i, c) == SubSeq(s, 1, i - 1) \o <<c>> \o SubSeq(s, i, Len(s))

\* the strings one edit away from s, over the characters of sigma
OneEditFrom(s, sigma) ==
    {RemoveAt(s, i) : i \in 1..Len(s)}
    \cup {InsertAt(s, i, c) : i \in 1..(Len(s) + 1), c \in sigma}
    \cup {[s EXCEPT ![i] = c] : i \in 1..Len(s), c \in sigma}

RECURSIVE EditsWithin(_, _, _, _)
EditsWithin(s, t, k, sigma) ==
    \/ s = t
    \/ /\ k > 0
       /\ Abs(Len(s) - Len(t)) <= k
       /\ \E x \in OneEditFrom(s, sigma) : EditsWithin(x, t, k - 1, sigma)

\* the edit distance of s and t is at most k
DistanceAtMost(s, t, k) == EditsWithin(s, t, k, Range(s) \cup Range(t))

\* t occurs in s as a run of consecutive characters
OccursIn(t, s) ==
    \E off \in 0..(Len(s) - Len(t)) : \A k \in 1..Len(t) : s[off + k] = t[k]

\* the strings over sigma of length at most n, layer by layer: layer k + 1
\* holds the strings reached from `start` by k edits and by no fewer
RECURSIVE EditLayers(_, _, _, _)
EditLayers(seen, frontier, sigma, n) ==
    IF frontier = {} THEN <<>>
    ELSE LET reached == UNION {OneEditFrom(s, sigma) : s \in frontier}
             fresh   == {x \in reached : Len(x) <= n} \ seen
         IN <<frontier>> \o EditLayers(seen \cup fresh, fresh, sigma, n)

\* the layers around every token string (computed once)
EditLayersTable ==
    [a \in TokenStrings |-> EditLayers({a}, {a}, {"a", "b"}, MaxLen)] @@ <<>>

\* the layers around every string as typed (computed once)
RawLayersTable ==
    [a \in RawStrings |->
        EditLayers({a}, {a}, {"a", "B", "Eacute", "-", "7"}, MaxRawLen)] @@ <<>>

\* the least number of one-character edits that turn a into b
MinEdits(a, b) ==
    LET layers == IF a \in TokenStrings /\ b \in TokenStrings
                  THEN EditLayersTable[a]
                  ELSE IF a \in RawStrings /\ b \in RawStrings
                  THEN RawLayersTable[a]
                  ELSE EditLayers({a}, {a}, Range(a) \cup Range(b),
                                  Max2(Len(a), Len(b)))
    IN (CHOOSE k \in 1..Len(layers) : b \in layers[k]) - 1

TokenA == normalizeToken(argA)

TokenB == normalizeToken(argB)

-----------------------------------------------------------------------------
(* Properties of the page *)

Asking == currentCard # NoCard

CorrectLabel == currentCard.label

PoolLabels == MapSeq(LAMBDA c : c.label, gameCards)

\* what may be handed to selectAnswer: an option shown, or a typed answer
Choices == BagToSet(options) \cup TypedChoices

Similar(a, b) == SimilarTable[a, b]

\* pool labels neither equal nor similar to the label asked
DistinctPoolLabels ==
    SelectSeq(PoolLabels,
              LAMBDA l : l # CorrectLabel /\ ~Similar(l, CorrectLabel))

\* filler names similar neither to the label asked nor to any pool label
DistinctFillers ==
    SelectSeq(DEFAULT_NAMES,
              LAMBDA n : /\ ~Similar(n, CorrectLabel)
                         /\ \A i \in 1..Len(PoolLabels) : ~Similar(n, PoolLabels[i]))

\* C1: selectAnswer(choice) on a current card sets isCorrect, and adds one to
\* correctAnswers, exactly when choice equals the card's label or is similar
\* to it; otherwise isCorrect is false and correctAnswers is unchanged.
C1_SelectAnswerGrades ==
    [][\A choice \in Choices :
         (Asking /\ showResult' /\ SelectAnswer(choice)) =>
            LET ok == choice = CorrectLabel \/ Similar(choice, CorrectLabel)
            IN /\ isCorrect' = ok
               /\ correctAnswers' = correctAnswers + (IF ok THEN 1 ELSE 0)]_vars

\* an answer was graded correct on a card whose label has an empty token, so
\* only the equality of choice and label can have decided it
C1_Witness ==
    /\ Asking /\ showResult /\ isCorrect /\ correctAnswers = 1
    /\ normalizeToken(CorrectLabel) = <<>>

\* C2: after startNewQuestion no option other than the label asked is similar
\* to the label asked, whether it came from the pool or from the fillers.
C2_NoSimilarDistractor ==
    Asking => \A o \in BagToSet(options) :
                 o # CorrectLabel => ~Similar(o, CorrectLabel)

\* a question whose pool holds another label similar to the one asked
C2_Witness ==
    /\ Asking
    /\ BagCardinality(options) = 4
    /\ \E i \in 1..Len(PoolLabels) :
          PoolLabels[i] # CorrectLabel /\ Similar(PoolLabels[i], CorrectLabel)

\* C3: options has exactly 4 entries whenever the distinct pool labels and
\* the distinct fillers together number at least 3.
C3_FourOptions ==
    (Asking /\ Len(DistinctPoolLabels) + Len(DistinctFillers) >= 3)
        => BagCardinality(options) = 4

\* a question whose pool alone gives fewer than 3 distractors, asked with 4
\* options
C3_Witness ==
    /\ Asking
    /\ Len(DistinctPoolLabels) < 3
    /\ Len(DistinctPoolLabels) + Len(DistinctFillers) >= 3
    /\ BagCardinality(options) = 4

\* C4: while a question is asked, options holds the label asked, exactly once.
C4_CorrectLabelOnce == Asking => CopiesIn(CorrectLabel, options) = 1

\* a question on a label that two cards of the pool carry
C4_Witness ==
    /\ Asking
    /\ Cardinality({i \in 1..Len(PoolLabels) : PoolLabels[i] = CorrectLabel}) = 2
    /\ CopiesIn(CorrectLabel, options) = 1

\* C5: the options of a question are mutually dissimilar: no two entries are
\* equal or similar to each other.
C5_MutuallyDissimilar ==
    Asking => /\ \A o \in BagToSet(options) : CopiesIn(o, options) = 1
              /\ \A o1, o2 \in BagToSet(options) :
                    o1 # o2 => ~Similar(o1, o2)

-----------------------------------------------------------------------------
(* Properties of the pure functions *)

Compared == probe.op = "isSimilar"

BothTokens == TokenA # <<>> /\ TokenB # <<>>

Longer == Max2(Len(TokenA), Len(TokenB))

Contained ==
    /\ OccursIn(TokenA, TokenB) \/ OccursIn(TokenB, TokenA)
    /\ Abs(Len(TokenA) - Len(TokenB)) <= 2

\* C6 as stated: for two non-empty tokens of at most 5 characters, isSimilar
\* is true when their edit distance is at most 1 and false when it is 2 or
\* more.
C6_ShortByDistanceOnly ==
    (Compared /\ BothTokens /\ Longer <= 5)
        => probe.result = DistanceAtMost(TokenA, TokenB, 1)

\* C6 amended: for two non-empty tokens of at most 5 characters, isSimilar is
\* true when their edit distance is at most 1, and also when one token occurs
\* in the other and their lengths differ by at most 2; it is false otherwise.
C6_ShortThreshold ==
    (Compared /\ BothTokens /\ Longer <= 5)
        => probe.result = (DistanceAtMost(TokenA, TokenB, 1) \/ Contained)

\* two short tokens at distance 2 or more, neither inside the other, found
\* not similar
C6_Witness ==
    /\ Compared /\ BothTokens /\ Longer <= 5
    /\ ~DistanceAtMost(TokenA, TokenB, 1) /\ DistanceAtMost(TokenA, TokenB, 2)
    /\ ~Contained
    /\ probe.result = FALSE

\* C7: for two non-empty tokens the longer of which has more than 5
\* characters, isSimilar is true if and only if their edit distance is at
\* most 2, also when one token contains the other.
C7_LongThreshold ==
    (Compared /\ BothTokens /\ Longer > 5)
        => probe.result = DistanceAtMost(TokenA, TokenB, 2)

\* a long token and one it contains, three characters shorter, found not
\* similar
C7_Witness ==
    /\ Compared /\ BothTokens /\ Longer > 5
    /\ OccursIn(TokenB, TokenA)
    /\ Len(TokenA) - Len(TokenB) = 3
    /\ probe.result = FALSE

\* C8: isSimilar(a, b) is false whenever the token of a or of b is empty,
\* whatever the other argument, also when both are empty or identical.
C8_EmptyTokenNotSimilar ==
    (Compared /\ (TokenA = <<>> \/ TokenB = <<>>)) => probe.result = FALSE

\* a string of punctuation compared with itself
C8_Witness ==
    /\ Compared /\ argA # <<>> /\ argA = argB /\ TokenA = <<>>
    /\ probe.result = FALSE

\* C9 as stated: isSimilar(a, a) is true for any non-empty string a.
C9_ReflexiveOnNonEmpty ==
    (Compared /\ argA = argB /\ argA # <<>>) => probe.result = TRUE

\* C9 amended: isSimilar(a, a) is true for any string a whose token is not
\* empty.
C9_ReflexiveOnTokens ==
    (Compared /\ argA = argB /\ TokenA # <<>>) => probe.result = TRUE

\* a string that is not its own token, compared with itself
C9_Witness ==
    /\ Compared /\ argA = argB /\ TokenA # <<>> /\ TokenA # argA
    /\ probe.result = TRUE

\* C10: normalizeToken(normalizeToken(s)) = normalizeToken(s), and the token
\* holds only characters of [a-z0-9].
C10_NormalizeIdempotent ==
    probe.op = "normalizeToken"
        => /\ probe.again = probe.result
           /\ \A i \in 1..Len(probe.result) :
                 probe.result[i] \in LowerLetters \cup Digits

\* a string with a capital, an accented letter or punctuation, and its token
C10_Witness ==
    /\ probe.op = "normalizeToken"
    /\ probe.result # <<>>
    /\ \E i \in 1..Len(argA) : argA[i] = "Eacute"
    /\ \E i \in 1..Len(argA) : argA[i] = "-"

-----------------------------------------------------------------------------
\* C11: levenshtein(a, b) is the least number of one-character insertions,
\* deletions and substitutions that turn a into b, empty strings included;
\* hence levenshtein(a, b) = levenshtein(b, a) and levenshtein(a, a) = 0
C11_LevenshteinIsMinEdits ==
    probe.op = "levenshtein" =>
        /\ probe.result = MinEdits(argA, argB)
        /\ probe.swapped = probe.result
        /\ probe.self = 0

\* two strings of different lengths, three edits apart
C11_Witness ==
    /\ probe.op = "levenshtein"
    /\ Len(argA) > Len(argB) /\ Len(argB) > 0
    /\ probe.result = 3

-----------------------------------------------------------------------------
(* Properties of the option builder *)

\* the labels of the cards of the pool the question was built from
OptionLabels == Range(probe.labels)

\* the labels of the other cards that may serve as distractors
AcceptedCandidates ==
    SelectSeq(probe.labels,
              LAMBDA l : l # probe.correct /\ ~Similar(l, probe.correct))

\* the filler names similar neither to the label asked nor to a pool label
AcceptedFillers ==
    SelectSeq(argNames,
              LAMBDA n : /\ ~Similar(n, probe.correct)
                         /\ \A l \in OptionLabels : ~Similar(n, l))

\* C12: no filler name put into options is similar to the label of any card
\* of the pool, and the filter on the fillers (isSimilarToAny over the tokens
\* of the pool labels) lets through no name isSimilar flags against a pool
\* label.
C12_FillersUnlikePool ==
    probe.op = "startNewQuestion" =>
        /\ \A n \in Range(probe.added) :
               n \in BagToSet(probe.options)
               /\ \A l \in OptionLabels : ~Similar(n, l)
        /\ \A n \in Range(argNames) :
               (\E l \in OptionLabels : Similar(n, l))
                   => n \notin Range(probe.fillers)

\* fillers were added although the list held a name similar to the label of
\* a card other than the one asked, and neither equal nor similar to the
\* label asked
C12_Witness ==
    /\ probe.op = "startNewQuestion"
    /\ probe.added # <<>>
    /\ \E n \in Range(argNames) :
          /\ ~Similar(n, probe.correct)
          /\ \E l \in OptionLabels : l # n /\ Similar(n, l)

\* C13: when the accepted candidates and the accepted fillers number k < 3,
\* the options are the label asked and every accepted distractor, 1 + k in
\* all.
C13_FewerOptions ==
    (probe.op = "startNewQuestion"
     /\ Len(AcceptedCandidates) + Len(AcceptedFillers) < 3) =>
        /\ BagCardinality(probe.options)
              = 1 + Len(AcceptedCandidates) + Len(AcceptedFillers)
        /\ probe.options = SeqToBag(<<probe.correct>> \o AcceptedCandidates
                                                      \o AcceptedFillers)

\* one candidate and one filler accepted, others rejected: three options
C13_Witness ==
    /\ probe.op = "startNewQuestion"
    /\ Len(AcceptedCandidates) = 1 /\ Len(AcceptedFillers) = 1
    /\ Len(argNames) > 1 /\ Len(probe.labels) > 2
    /\ BagCardinality(probe.options) = 3

-----------------------------------------------------------------------------
(* Properties of the loading of the pool *)

\* a run has been set up on the stored "people" list
RunSetUp == selectedFilter = "people"

StoredPeople == storage["people"]

\* C14 as stated: after setupNewRun, totalQuestions is the lesser of 10 and
\* the number of distinct labels of the de-duplicated pool.
C14_TotalIsDistinctLabels ==
    RunSetUp =>
        totalQuestions = Min2(10, Cardinality(Range(PoolLabels)))

\* the card normalizeCard makes of the i-th stored card
StoredCard(i) == normalizeCard(StoredPeople[i], "people")

WellFormed(i) == StoredCard(i).label # <<>> /\ StoredCard(i).image # ""

\* an earlier stored card has the same image and, up to the case of its
\* letters, the same label
RepeatsEarlier(i) ==
    \E k \in 1..(i - 1) :
        /\ WellFormed(k)
        /\ StoredCard(k).image = StoredCard(i).image
        /\ toLowerCase(StoredCard(k).label) = toLowerCase(StoredCard(i).label)

\* C17: after setupNewRun no two cards of the pool have the same category,
\* the same token of the label and the same image.
C17_NoDuplicateKey ==
    RunSetUp =>
        \A i, j \in 1..Len(gameCards) :
            (/\ gameCards[i].category = gameCards[j].category
             /\ normalizeToken(gameCards[i].label) = normalizeToken(gameCards[j].label)
             /\ gameCards[i].image = gameCards[j].image) => i = j

\* every card of the pool has a label and an image
PoolCardsComplete ==
    \A i \in 1..Len(gameCards) :
        gameCards[i].label # <<>> /\ gameCards[i].image # ""

-----------------------------------------------------------------------------
(* Properties of the sequencer *)

\* C15: skipCurrent on a current card adds exactly 1 to skipCount, appends
\* the card's id to skippedCardIds (a card stored without id leaves the list
\* as it is), leaves correctAnswers unchanged and marks no answer: it sets
\* neither isCorrect nor showResult to true.
C15_SkipDoesNotGrade ==
    Asking => \A next \in skipCurrent(Page) :
        /\ next.skipCount = skipCount + 1
        /\ next.skippedCardIds =
              IF currentCard.id # "" THEN Append(skippedCardIds, currentCard.id)
              ELSE skippedCardIds
        /\ next.correctAnswers = correctAnswers
        /\ next.isCorrect => isCorrect
        /\ next.showResult => showResult

\* the first question was skipped and the second is asked
C15_Witness ==
    /\ Asking /\ currentQuestion = 2 /\ ~showResult
    /\ skipCount = 1 /\ Len(skippedCardIds) = 1
    /\ correctAnswers = 0

\* C16: a run hands its session summary to ProgressPage.saveGameSession
\* exactly once, when it reaches Complete: no call of skipCurrent or
\* continueGame hands over a second summary for the same run.
C16_OneSummaryPerRun ==
    Asking =>
        \A next \in skipCurrent(Page) \cup continueGame(Page) : next.sessions <= 1

\* some card of the pool carries a label not asked yet
UnaskedLeft == \E i \in 1..Len(gameCards) : gameCards[i].label \notin askedLabels

\* the outcomes of startNewQuestion that asked a question
Picks == {next \in startNewQuestion(Page) : next.currentQuestion = currentQuestion + 1}

\* C19: when startNewQuestion picks a card while some card of the pool has a
\* label not in askedLabels, the label picked was not in askedLabels; a label
\* asked before is picked only when every label of the pool has been asked;
\* the label picked is in askedLabels afterwards.
C19_PicksUnaskedFirst ==
    \A next \in Picks :
        /\ UnaskedLeft => next.currentCard.label \notin askedLabels
        /\ next.currentCard.label \in askedLabels => ~UnaskedLeft
        /\ next.currentCard.label \in next.askedLabels
        /\ next.askedLabels = askedLabels \cup {next.currentCard.label}

\* the second question of a pool of three cards was picked: one card was
\* asked before, and the one picked is another
C19_Witness ==
    /\ Asking /\ currentQuestion = 2 /\ Len(gameCards) = 3
    /\ Cardinality(askedLabels) = 2
    /\ Picks # {}

\* C20: within one run no label is asked twice: the labels asked are as many
\* as the questions asked, and startNewQuestion never falls back to the
\* cards already asked.
C20_NoLabelTwice ==
    /\ Cardinality(askedLabels) = currentQuestion
    /\ Picks # {} => UnaskedLeft

\* a run over a pool in which two cards carry the same label came to its
\* end: fewer questions than cards, each on another label
C20_Witness ==
    /\ showGameComplete
    /\ currentQuestion = totalQuestions /\ totalQuestions = 2
    /\ Len(gameCards) = 3
    /\ Cardinality(askedLabels) = 2

\* the outcome asked a new question, the next in number, and ended nothing
AsksNext(next) ==
    /\ next.currentQuestion = currentQuestion + 1
    /\ next.currentCard \in Range(gameCards)
    /\ ~next.showResult
    /\ next.pendingEnd = pendingEnd /\ next.sessions = sessions
    /\ next.showGameComplete = showGameComplete

\* the outcome asked no question and called endGame, which sets
\* showGameComplete when it resumes
EndsRun(next) ==
    /\ next.currentQuestion = currentQuestion
    /\ next.currentCard = currentCard
    /\ next.askedLabels = askedLabels
    /\ next.pendingEnd = pendingEnd + 1
    /\ endGameResume(next).showGameComplete

\* C21: skipCurrent, and continueGame after an answer, ask a new question
\* with currentQuestion one higher when currentQuestion < totalQuestions, and
\* call endGame without asking a question when currentQuestion =
\* totalQuestions; selectAnswer, on the last question as on any other, shows
\* the result and does not end the run.
C21_AdvanceByOneOrComplete ==
    Asking =>
        /\ \A next \in skipCurrent(Page)
                        \cup (IF showResult THEN continueGame(Page) ELSE {}) :
              /\ currentQuestion < totalQuestions => AsksNext(next)
              /\ currentQuestion = totalQuestions => EndsRun(next)
        /\ \A choice \in Choices : \E next \in {selectAnswer(Page, choice)} :
              /\ next.showResult
              /\ next.currentQuestion = currentQuestion
              /\ next.pendingEnd = pendingEnd
              /\ next.showGameComplete = showGameComplete

\* the last of two questions has been answered: its result is shown and the
\* run is not complete
C21_Witness ==
    /\ Asking /\ totalQuestions = 2 /\ currentQuestion = totalQuestions
    /\ showResult /\ shouldCompleteAfterResult
    /\ ~showGameComplete /\ pendingEnd = 0 /\ sessions = 0

\* a run was set up and its pool is empty
EmptyRun == selectedFilter # NoFilter /\ gameCards = <<>>

\* C22 as stated: when setupNewRun builds an empty pool there is no current
\* card, currentQuestion is 0, options is empty, selectAnswer and skipCurrent
\* change nothing, and no session summary is handed over, whatever is called
\* of selectAnswer, skipCurrent and continueGame.
C22_EmptyPoolStaysIdle ==
    EmptyRun =>
        /\ currentCard = NoCard /\ currentQuestion = 0 /\ options = EmptyBag
        /\ \A choice \in Choices : selectAnswer(Page, choice) = Page
        /\ skipCurrent(Page) = {Page}
        /\ sessions = 0
        /\ \A next \in continueGame(Page) : next.sessions = 0

\* C23: fillers only make up a shortfall.  When at least three labels of the
\* pool are neither equal nor similar to the label asked, no filler is added
\* and the three distractors are labels of the pool; when there are k < 3,
\* all k are among the options and the fillers added are at most 3 - k, the
\* first ones, in the order of the list, of the names the filter lets through.
C23_FillersOnlyForShortfall ==
    probe.op = "startNewQuestion" =>
        \E k \in {Len(AcceptedCandidates)} :
            /\ k >= 3 =>
                  /\ probe.added = <<>>
                  /\ BagCardinality(probe.options) = 4
                  /\ probe.options (-) SetToBag({probe.correct})
                        \sqsubseteq SeqToBag(AcceptedCandidates)
            /\ k < 3 =>
                  /\ SeqToBag(AcceptedCandidates) \sqsubseteq probe.options
                  /\ Len(probe.added) = Min2(3 - k, Len(AcceptedFillers))
                  /\ probe.added = SubSeq(AcceptedFillers, 1, Len(probe.added))
                  /\ probe.options =
                        SeqToBag(<<probe.correct>> \o AcceptedCandidates
                                                   \o probe.added)

\* two labels of the pool may serve and the filter lets more than one name
\* through, the first of them after a name it holds back: one filler is added
C23_Witness ==
    /\ probe.op = "startNewQuestion"
    /\ Len(AcceptedCandidates) = 2
    /\ Len(AcceptedFillers) > 1 /\ Len(probe.added) = 1
    /\ probe.added[1] # argNames[1]

\* three labels of the pool may serve: the list of fillers is not drawn on
C23_WitnessThree ==
    /\ probe.op = "startNewQuestion"
    /\ Len(AcceptedCandidates) >= 3 /\ argNames # <<>>
    /\ probe.added = <<>>

\* C24 as stated: in every reachable state correctAnswers + skipCount <=
\* currentQuestion: a question asked adds to at most one of the two counters,
\* and at most once, whatever is called of selectAnswer, skipCurrent and
\* continueGame.
C24_TalliesWithinQuestions == correctAnswers + skipCount <= currentQuestion

\* C25 as stated: in every reachable state 0 <= currentQuestion <=
\* totalQuestions <= 10 and totalQuestions is at most the number of cards of
\* the pool.
C25_CountWithinTotal ==
    /\ 0 <= currentQuestion /\ currentQuestion <= totalQuestions
    /\ totalQuestions <= 10
    /\ totalQuestions <= Len(gameCards)

\* the outcomes of the handlers that start a run: chooseBuiltin, and
\* playAgain, which leaves what chooseBuiltin leaves for the category chosen
\* before (and leaves the page as it is when none was)
Restarts ==
    UNION {setupNewRun([Page EXCEPT !.selectedFilter = builtin], storage)
           : builtin \in Builtins}

\* C25 amended: in every reachable state 0 <= currentQuestion <=
\* totalQuestions <= 10; once a category has been chosen totalQuestions is at
\* most the number of cards of the pool, and before that the page holds its
\* initial values (totalQuestions = 10, no card, no question asked).
\* currentQuestion goes up by 1 at a time, and only where startNewQuestion
\* asks a question: skipCurrent and continueGame leave it or add 1 with a new
\* label asked, a new run sets it to 0 or 1, and selectAnswer, finishGame and
\* the end of endGame leave it.
C25_CountWithinTotalOfRun ==
    /\ 0 <= currentQuestion /\ currentQuestion <= totalQuestions
    /\ totalQuestions <= 10
    /\ IF selectedFilter = NoFilter
       THEN totalQuestions = 10 /\ gameCards = <<>> /\ currentQuestion = 0
       ELSE totalQuestions <= Len(gameCards)
    /\ \A next \in skipCurrent(Page) \cup continueGame(Page) :
          \/ next.currentQuestion = currentQuestion
          \/ /\ next.currentQuestion = currentQuestion + 1
             /\ next \in startNewQuestion([next EXCEPT
                            !.currentQuestion = currentQuestion,
                            !.askedLabels = askedLabels])
    /\ \A next \in Restarts :
          /\ next.currentQuestion \in {0, 1}
          /\ next.currentQuestion = 1 <=> next.gameCards # <<>>
    /\ \A choice \in Choices :
          selectAnswer(Page, choice).currentQuestion = currentQuestion
    /\ finishGame(Page).currentQuestion = currentQuestion
    /\ endGameResume(Page).currentQuestion = currentQuestion

\* the second and last question of a pool of three cards, two of them with
\* the same label, is asked after a skip
C25_Witness ==
    /\ Asking /\ ~showGameComplete /\ pendingEnd = 0
    /\ Len(gameCards) = 3 /\ totalQuestions = 2 /\ currentQuestion = 2
    /\ skipCount = 1 /\ correctAnswers = 0

\* C26 as stated: however the handlers interleave with the save awaited in
\* endGame, a run with a question on screen shows as complete only when
\* currentQuestion >= totalQuestions (an endGame that resumes after a new run
\* was started does not mark the new run complete), and while a save is
\* awaited neither skipCurrent nor continueGame starts a second endGame.
C26_CompleteOnlyAtTotal ==
    /\ (Asking /\ showGameComplete) => currentQuestion >= totalQuestions
    /\ (Asking /\ pendingEnd > 0) =>
          \A next \in skipCurrent(Page) \cup continueGame(Page) :
              next.pendingEnd = pendingEnd

\* the runs chooseBuiltin starts, and playAgain once a category has been
\* chosen
StartedRuns ==
    (IF selectedFilter # NoFilter THEN setupNewRun(Page, storage) ELSE {})
    \cup setupNewRun([Page EXCEPT !.selectedFilter = "people"], storage)
    \cup setupNewRun([Page EXCEPT !.selectedFilter = "places"], storage)

\* C29: a run started from any reachable state starts clean: correctAnswers
\* and skipCount are 0, skippedCardIds is empty, showResult, isCorrect and
\* showGameComplete are false; with cards in the pool currentQuestion is 1
\* and askedLabels holds the label of the first question and nothing else,
\* and with none currentQuestion is 0 and askedLabels is empty.
C29_NewRunStartsClean ==
    \A next \in StartedRuns :
        /\ next.correctAnswers = 0 /\ next.skipCount = 0
        /\ next.skippedCardIds = <<>>
        /\ ~next.showResult /\ ~next.isCorrect /\ ~next.showGameComplete
        /\ ~next.shouldCompleteAfterResult
        /\ IF next.gameCards # <<>>
           THEN /\ next.currentQuestion = 1
                /\ next.currentCard \in Range(next.gameCards)
                /\ next.askedLabels = {next.currentCard.label}
           ELSE /\ next.currentQuestion = 0
                /\ next.currentCard = NoCard
                /\ next.askedLabels = {}

\* a run of two questions was started while the endGame of the run before it
\* awaits its save: its first question is asked and its tallies are 0
C29_Witness ==
    /\ Asking /\ pendingEnd = 1 /\ sessions = 0
    /\ totalQuestions = 2 /\ currentQuestion = 1
    /\ askedLabels = {CorrectLabel}
    /\ correctAnswers = 0 /\ skipCount = 0 /\ skippedCardIds = <<>>
    /\ ~showGameComplete /\ ~showResult

\* the run shows as complete, every one of its questions asked
Complete == showGameComplete /\ currentQuestion = totalQuestions

\* C30: a run with cards in its pool terminates: from any state in which a
\* question is shown, the player acting on and the save settling, the run
\* comes to show as complete with currentQuestion = totalQuestions.  The
\* filling loop of startNewQuestion is evaluated for each question on the
\* way and ends after at most three passes (fillLoop).
C30_RunTerminates == Asking ~> Complete

\* a run of three questions shows as complete
C30_Witness ==
    /\ Complete /\ Asking /\ totalQuestions = 3 /\ pendingEnd = 0
    /\ Cardinality(askedLabels) = 3

-----------------------------------------------------------------------------
(* Properties of the save of the summary *)

\* the pages on which an endGame awaits its save: the page as it is, and as
\* skipCurrent or continueGame leave it when they call endGame
AwaitingPages ==
    {this \in {Page} \cup skipCurrent(Page) \cup continueGame(Page) :
        this.pendingEnd > 0}

\* C27: a save that throws or rejects does not block completion: endGame
\* still ends with showGameComplete = true and showResult = false, and
\* correctAnswers, skipCount and totalQuestions are as they were.
C27_SaveFailureDoesNotBlock ==
    \A this \in AwaitingPages : \E next \in {endGameSettled(this, TRUE)} :
        /\ next.showGameComplete /\ ~next.showResult
        /\ next.pendingEnd = this.pendingEnd - 1
        /\ next.correctAnswers = this.correctAnswers
        /\ next.skipCount = this.skipCount
        /\ next.totalQuestions = this.totalQuestions

\* the remote save and the backup both failed, the call rejected, and the
\* run shows as complete
C27_Witness ==
    /\ probe.op = "saveGameSession" /\ probe.rejected /\ ~probe.remote
    /\ Asking /\ currentQuestion = totalQuestions
    /\ showGameComplete /\ ~showResult /\ pendingEnd = 0

\* the summaries a save may be called with: those awaited, and those of the
\* endGame skipCurrent or continueGame would call
SessionsToSave ==
    Range(saving)
    \cup {sessionData(next) : next \in {n \in skipCurrent(Page) \cup continueGame(Page) :
                                          n.pendingEnd > pendingEnd}}

\* what saveGameSession may leave for each of them: the remote save resolves
\* or rejects, each setItem succeeds or throws
SaveOutcomes ==
    {[session |-> s,
      writable |-> ok2,
      result |-> saveGameSession(gameSessions, firestoreSessions, s,
                                 currentUser, addDocOk, ok1, ok2)]
     : s \in SessionsToSave, addDocOk \in BOOLEAN, ok1 \in BOOLEAN,
       ok2 \in BOOLEAN}

\* C28 as stated: each call of ProgressPage.saveGameSession appends exactly
\* one record for the session to the 'gameSessions' list, whether the remote
\* save succeeds or fails, and leaves the records of the list as they were.
C28_OneBackupPerCall ==
    \A o \in SaveOutcomes :
        o.result.store.items = Append(gameSessions.items, o.session)

\* C28 amended: a call that resolves has appended exactly one record for the
\* session, whether the remote save succeeded or failed; a call rejects only
\* when the value of 'gameSessions' is no array or the setItem of the
\* fallback throws, and then the value is left as it was; the call resolves
\* whenever the value is an array and the fallback's setItem succeeds.  In
\* no case are two records appended or the earlier records changed.
C28_OneBackupUnlessUnwritable ==
    \A o \in SaveOutcomes :
        /\ ~o.result.rejected =>
              o.result.store.items = Append(gameSessions.items, o.session)
        /\ o.result.rejected =>
              /\ o.result.store = gameSessions
              /\ ~gameSessions.array \/ ~o.writable
        /\ (gameSessions.array /\ o.writable) => ~o.result.rejected

\* the remote save failed, and the record of the session follows the one
\* the list held
C28_Witness ==
    /\ probe.op = "saveGameSession" /\ ~probe.remote /\ ~probe.rejected
    /\ Len(gameSessions.items) = 2 /\ gameSessions.items[1] = OldSession
    /\ gameSessions.items[2].category = "people"

=========================================================================
